---- MODULE Spec2Model ----
(***************************************************************************)
(* A model of python_cli_utils: choices_prompt and                         *)
(* numbered_choices_prompt (choices_prompt.py), ellipsize (tty_utils.py).  *)
(*                                                                         *)
(* Text is modelled as a sequence of tokens.  Strings supplied by the      *)
(* caller or typed by the user are sequences of one-character tokens;      *)
(* literal text of the program may be a single longer token.  A stream's   *)
(* content is the concatenation of the tokens written to it.               *)
(*                                                                         *)
(* Optional values: None is <<>> and a present value v is <<v>>.           *)
(***************************************************************************)
EXTENDS FiniteSets, Integers, Sequences, TLC

VARIABLES
    fn,            \* the function the caller invokes
    args,          \* its arguments
    pc,            \* "idle", "input" (blocked in input()), "returned", "raised"
    result,        \* the value returned to the caller (Optional)
    exc,           \* the exception raised to the caller ("" when none)
    written,       \* what has been written to the stdout and stderr streams
    sys_stdout,    \* the stream sys.stdout is bound to
    events,        \* the flush_input() calls and input() returns, in order
    reads,         \* what input() delivered so far: <<line>> or <<>> at EOF
    cp,            \* the locals of the active choices_prompt call
    np,            \* the locals of the active numbered_choices_prompt call
    platform,      \* which of the modules termios and msvcrt can be imported
    internal_helper, \* the attribute flush_input.internal_helper (Optional)
    lookups,       \* the import_module() and helper calls made by flush_input
    pg             \* the state paged_output works on (tty_utils.py)

vars ==
    <<fn, args, pc, result, exc, written, sys_stdout, events, reads, cp, np,
      platform, internal_helper, lookups, pg>>

(***************************************************************************)
(* Bounds of the model.                                                    *)
(***************************************************************************)
\* the number of choices in the collection given to choices_prompt
MaxChoices == 2
\* the number of choices given to numbered_choices_prompt
MaxNumbered == 3
\* the number of times input() returns or raises during one call
MaxReads == 3
\* a number of choices with more than one digit, for numbered_choices_prompt
ManyChoices == 11
\* the length of the strings given to ellipsize and normalize_choice_str
MaxLen == 5
\* the largest width given to ellipsize
MaxWidth == 6
\* the number of direct calls of flush_input
MaxFlushes == 3
\* the depth to which paged_output contexts are nested
MaxContexts == 3
\* the number of pager processes started
MaxPagers == 3

(***************************************************************************)
(* Optional values and truthiness.                                         *)
(***************************************************************************)
NoneV == <<>>
Some(v) == <<v>>
Val(o) == o[1]

\* `x or y` / `if x` for an Optional[str]: None and "" are both falsy.
Truthy(o) == o # NoneV /\ Val(o) # <<>>

(***************************************************************************)
(* str.strip() and str.casefold()                                          *)
(***************************************************************************)
Whitespace == {" ", "\t", "\n", "\r", "\f"}

RECURSIVE LStrip(_)
LStrip(s) ==
    IF s # <<>> /\ Head(s) \in Whitespace THEN LStrip(Tail(s)) ELSE s

RECURSIVE RStrip(_)
RStrip(s) ==
    IF s # <<>> /\ s[Len(s)] \in Whitespace
    THEN RStrip(SubSeq(s, 1, Len(s) - 1))
    ELSE s

Strip(s) == RStrip(LStrip(s))

Lower ==
    [A |-> "a", B |-> "b", C |-> "c", D |-> "d", E |-> "e", F |-> "f",
     G |-> "g", H |-> "h", I |-> "i", J |-> "j", K |-> "k", L |-> "l",
     M |-> "m", N |-> "n", O |-> "o", P |-> "p", Q |-> "q", R |-> "r",
     S |-> "s", T |-> "t", U |-> "u", V |-> "v", W |-> "w", X |-> "x",
     Y |-> "y", Z |-> "z"]

\* Mutant: the sharp s is expanded the way str.upper() expands it.
FoldChar_upper_expansion(c) ==
    IF c \in DOMAIN Lower THEN <<Lower[c]>>
    ELSE IF c = "ß" THEN <<"S", "S">>
    ELSE <<c>>

\* Case folding of one character; it is not length preserving.
FoldChar(c) ==
    IF c \in DOMAIN Lower THEN <<Lower[c]>>
    ELSE IF c = "ß" THEN <<"s", "s">>
    ELSE <<c>>

RECURSIVE Casefold(_)
Casefold(s) ==
    IF s = <<>> THEN <<>> ELSE FoldChar(Head(s)) \o Casefold(Tail(s))

\* Mutant: the surrounding whitespace is kept.
normalize_choice_str_unstripped(s) == Casefold(s)

normalize_choice_str(s) == Casefold(Strip(s))

(***************************************************************************)
(* str(int) and int(str)                                                   *)
(***************************************************************************)
Digits == <<"0", "1", "2", "3", "4", "5", "6", "7", "8", "9">>

RECURSIVE StrNat(_)
StrNat(n) ==
    IF n < 10 THEN <<Digits[n + 1]>>
    ELSE StrNat(n \div 10) \o <<Digits[(n % 10) + 1]>>

DigitValue(c) == (CHOOSE i \in 1..10 : Digits[i] = c) - 1

IsDecimal(s) == s # <<>> /\ \A i \in DOMAIN s : \E d \in 1..10 : Digits[d] = s[i]

RECURSIVE DecimalValue(_)
DecimalValue(s) ==
    IF s = <<>> THEN 0
    ELSE 10 * DecimalValue(SubSeq(s, 1, Len(s) - 1)) + DigitValue(s[Len(s)])

\* int(s): <<n>>, or <<>> where int() raises ValueError.
ParseInt(s) ==
    LET t == Strip(s) IN IF IsDecimal(t) THEN Some(DecimalValue(t)) ELSE NoneV

(***************************************************************************)
(* Choices.  An element of the `choices` collection is either a single     *)
(* string or a sequence of alias strings.                                  *)
(***************************************************************************)
Bare(s) == [isStr |-> TRUE, s |-> s, t |-> <<>>]
Aliases(t) == [isStr |-> FALSE, s |-> <<>>, t |-> t]

\* (choice,) if isinstance(choice, str) else choice
AsTuple(choice) == IF choice.isStr THEN <<choice.s>> ELSE choice.t

\* Mutant: each alias is stored as its own canonical form.
TableValue_alias(choice_tuple, choice_str) == choice_str

\* the value stored for one alias of one choice: choice_tuple[0]
TableValue(choice_tuple, choice_str) == choice_tuple[1]

\* d[k] = v
DictSet(d, k, v) == [x \in (DOMAIN d) \cup {k} |-> IF x = k THEN v ELSE d[x]]

\* the items one choice contributes to the dict comprehension, in order
RECURSIVE TupleItems(_, _)
TupleItems(choice_tuple, j) ==
    IF j > Len(choice_tuple) THEN <<>>
    ELSE <<<<normalize_choice_str(choice_tuple[j]),
             TableValue(choice_tuple, choice_tuple[j])>>>>
         \o TupleItems(choice_tuple, j + 1)

RECURSIVE TableItems(_)
TableItems(choices) ==
    IF choices = <<>> THEN <<>>
    ELSE TupleItems(AsTuple(Head(choices)), 1) \o TableItems(Tail(choices))

\* a dict built by inserting the items in order: a later item replaces an
\* earlier one with the same key
RECURSIVE DictOf(_)
\* Mutant: an item whose key is already present is dropped.
DictOf_first_wins(items) ==
    IF items = <<>> THEN <<>>
    ELSE LET n == Len(items)
             d == DictOf(SubSeq(items, 1, n - 1))
         IN IF items[n][1] \in DOMAIN d THEN d
            ELSE DictSet(d, items[n][1], items[n][2])

DictOf(items) ==
    IF items = <<>> THEN <<>>
    ELSE LET n == Len(items)
         IN DictSet(DictOf(SubSeq(items, 1, n - 1)), items[n][1], items[n][2])

BuildTable(choices) == DictOf(TableItems(choices))

(***************************************************************************)
(* Output.                                                                 *)
(***************************************************************************)
NL == "\n"

\* f.write(text)
Write(w, f, text) == [w EXCEPT ![f] = @ \o text]

\* print(text, file=f)
PrintTo(w, f, text) == Write(w, f, text \o <<NL>>)

default_invalid_handler(response) ==
    <<"\"">> \o response \o <<"\" is not a valid choice.">>

\* some handler supplied by the caller of choices_prompt
custom_invalid_handler(response) ==
    <<"custom(">> \o response \o <<")">>

\* the handler numbered_choices_prompt passes to choices_prompt
numbered_invalid_handler(response, max_choice) ==
    <<"\"">> \o response \o <<"\" is not a valid choice.", NL,
      "The entered choice must be between 1 and ">> \o StrNat(max_choice)
    \o <<", inclusive.", NL,
         "Enter \"help\" to show the choices again or \"quit\" to quit.">>

CallHandler(e, response) ==
    CASE e.cp.invalid_handler = "default" -> default_invalid_handler(response)
      [] e.cp.invalid_handler = "custom" -> custom_invalid_handler(response)
      [] e.cp.invalid_handler = "numbered" ->
            numbered_invalid_handler(response, e.np.max_choice)

(***************************************************************************)
(* The execution state as a record, so that the straight-line code of a    *)
(* handler composes.                                                       *)
(***************************************************************************)
\* `flushed` is not a local: it records what had been written to the streams
\* when flush_input() was last called
NoCp ==
    [choices_table |-> <<>>, default |-> NoneV, invalid_handler |-> "",
     file |-> "", prompt |-> <<>>, old_stdout |-> "",
     flushed |-> [stdout |-> <<>>, stderr |-> <<>>]]

\* No paged_output context was ever entered.  `contexts` is the stack of
\* the open contexts, the innermost last; `procs` is the state of every
\* pager process started so far.
NoPg == [current_paged_output_proc |-> NoneV, contexts |-> <<>>, procs |-> <<>>]

NoNp ==
    [max_choice |-> 0, instructions |-> <<>>, prompt |-> <<>>,
     allowed_inputs |-> <<>>, default_index |-> NoneV, file |-> ""]

Current ==
    [pc |-> pc, result |-> result, exc |-> exc, written |-> written,
     sys_stdout |-> sys_stdout, events |-> events, reads |-> reads,
     cp |-> cp, np |-> np, internal_helper |-> internal_helper,
     lookups |-> lookups]

Install(e) ==
    /\ pc' = e.pc
    /\ result' = e.result
    /\ exc' = e.exc
    /\ written' = e.written
    /\ sys_stdout' = e.sys_stdout
    /\ events' = e.events
    /\ reads' = e.reads
    /\ cp' = e.cp
    /\ np' = e.np
    /\ internal_helper' = e.internal_helper
    /\ lookups' = e.lookups
    /\ UNCHANGED <<fn, args, platform, pg>>

\* an exception propagates to the caller
Raise(e, name) == [e EXCEPT !.pc = "raised", !.exc = name]

\* the outermost function returns
Return(e, v) == [e EXCEPT !.pc = "returned", !.result = v]

\* a platform: which of the modules importlib.import_module() finds
Platforms == [termios : BOOLEAN, msvcrt : BOOLEAN]

Posix == [termios |-> TRUE, msvcrt |-> FALSE]

\* internal_helper(): what the helper of each kind calls
CallHelper(helper) ==
    IF helper = "termios" THEN <<"termios.tcflush">>
    ELSE <<"msvcrt.kbhit">>

\* Mutant: the helper found is called but not stored.
SelectHelper_not_stored(e) ==
    IF platform.termios
    THEN [e EXCEPT !.lookups = @ \o <<"import termios">>
                                  \o CallHelper("termios")]
    ELSE IF platform.msvcrt
    THEN [e EXCEPT !.lookups = @ \o <<"import termios", "import msvcrt">>
                                  \o CallHelper("msvcrt")]
    ELSE [e EXCEPT !.lookups = @ \o <<"import termios", "import msvcrt">>]

\* the selection made when no helper is stored: termios is tried, then
\* msvcrt; the helper found is stored and called
SelectHelper(e) ==
    IF platform.termios
    THEN [e EXCEPT !.internal_helper = Some("termios"),
                   !.lookups = @ \o <<"import termios">>
                                  \o CallHelper("termios")]
    ELSE IF platform.msvcrt
    THEN [e EXCEPT !.internal_helper = Some("msvcrt"),
                   !.lookups = @ \o <<"import termios", "import msvcrt">>
                                  \o CallHelper("msvcrt")]
    ELSE [e EXCEPT !.lookups = @ \o <<"import termios", "import msvcrt">>]

\* flush_input(), as called by choices_prompt: `events` and `flushed` record
\* the call
flush_input(e) ==
    LET e1 == IF e.internal_helper # NoneV
              THEN [e EXCEPT !.lookups = @ \o CallHelper(Val(e.internal_helper))]
              ELSE SelectHelper(e)
    IN [e1 EXCEPT !.events = Append(@, "flush"), !.cp.flushed = e.written]

(***************************************************************************)
(* choices_prompt                                                          *)
(***************************************************************************)
RECURSIVE choices_prompt_enter(_, _, _, _, _, _)
RECURSIVE numbered_after(_, _)

\* choices_table[key]
Lookup(choices_table, key) == choices_table[key]

\* Mutant: an empty collection is not recognized.
NotChoices_never(choices) == FALSE

\* `not choices`
NotChoices(choices) == choices = <<>>

\* Mutant: the default is not checked.
DefaultInTable_unchecked(choices_table, ndefault) == TRUE

\* what `assert default in choices_table` tests
DefaultInTable(choices_table, ndefault) == ndefault \in DOMAIN choices_table

\* `return v` in choices_prompt: control goes back to its caller
choices_prompt_return(e, v) ==
    IF fn = "numbered_choices_prompt" THEN numbered_after(e, v)
    ELSE Return(e, v)

\* Mutant: sys.stdout is left alone, so input() writes the prompt to the
\* stream sys.stdout was bound to by the caller.
loop_head_no_redirect(e) ==
    LET e1 == flush_input(e)
        e2 == [e1 EXCEPT !.cp.old_stdout = e1.sys_stdout]
    IN [e2 EXCEPT !.written = Write(@, e2.sys_stdout, e2.cp.prompt),
                  !.pc = "input"]

\* Mutant: the pending input is flushed on entry only, not before each read.
loop_head_flush_once(e) ==
    LET e1 == IF e.events = <<>> THEN flush_input(e) ELSE e
        e2 == [e1 EXCEPT !.cp.old_stdout = e1.sys_stdout,
                         !.sys_stdout = e1.cp.file]
    IN [e2 EXCEPT !.written = Write(@, e2.sys_stdout, e2.cp.prompt),
                  !.pc = "input"]

\* The head of the loop, up to the point where input() blocks: flush the
\* pending input, bind sys.stdout to `file`, let input() write the prompt.
loop_head(e) ==
    LET e1 == flush_input(e)
        e2 == [e1 EXCEPT !.cp.old_stdout = e1.sys_stdout,
                         !.sys_stdout = e1.cp.file]
    IN [e2 EXCEPT !.written = Write(@, e2.sys_stdout, e2.cp.prompt),
                  !.pc = "input"]

\* The call, from its first statement to the first input().
choices_prompt_enter(e, prompt, choices, default, invalid_handler, file) ==
    IF NotChoices(choices) THEN choices_prompt_return(e, NoneV)
    ELSE
      LET choices_table == BuildTable(choices)
          ndefault == IF default = NoneV THEN NoneV
                      ELSE Some(normalize_choice_str(Val(default)))
      IN IF ndefault # NoneV /\ ~DefaultInTable(choices_table, Val(ndefault))
         THEN Raise(e, "AssertionError@146")
         ELSE loop_head(
                [e EXCEPT !.cp =
                    [choices_table |-> choices_table,
                     default |-> ndefault,
                     invalid_handler |->
                        IF invalid_handler = NoneV THEN "default"
                        ELSE Val(invalid_handler),
                     file |-> IF file = NoneV THEN e.sys_stdout ELSE Val(file),
                     prompt |-> prompt,
                     old_stdout |-> e.sys_stdout,
                     flushed |-> e.written]])

\* Mutant: sys.stdout is not restored after the read.
after_input_no_restore(e, got) ==
    [e EXCEPT !.events = Append(@, "read"), !.reads = Append(@, got)]

\* `finally: sys.stdout = old_stdout`, with the outcome of input() recorded
after_input(e, got) ==
    [e EXCEPT !.sys_stdout = e.cp.old_stdout,
              !.events = Append(@, "read"),
              !.reads = Append(@, got)]

\* Mutant: the normalized default itself is returned.
on_blank_returns_key(e) ==
    IF e.cp.default = NoneV THEN loop_head(e)
    ELSE choices_prompt_return(e, Some(Val(e.cp.default)))

\* Mutant: without a default the loop body runs to its end, where it prints
\* a blank line.
on_blank_falls_through(e) ==
    IF e.cp.default = NoneV
    THEN loop_head([e EXCEPT !.written = PrintTo(@, e.cp.file, <<>>)])
    ELSE choices_prompt_return(
            e, Some(Lookup(e.cp.choices_table, Val(e.cp.default))))

\* an empty normalized response
on_blank(e) ==
    IF e.cp.default = NoneV THEN loop_head(e)
    ELSE choices_prompt_return(
            e, Some(Lookup(e.cp.choices_table, Val(e.cp.default))))

\* Mutant: the message is built from the normalized response.
on_invalid_normalized(e, raw_response) ==
    LET w1 == PrintTo(e.written, e.cp.file,
                      CallHandler(e, normalize_choice_str(raw_response)))
        w2 == PrintTo(w1, e.cp.file, <<>>)
    IN loop_head([e EXCEPT !.written = w2])

\* Mutant: the prompt gives up after an invalid response.
on_invalid_gives_up(e, raw_response) ==
    LET w1 == PrintTo(e.written, e.cp.file, CallHandler(e, raw_response))
        w2 == PrintTo(w1, e.cp.file, <<>>)
    IN choices_prompt_return([e EXCEPT !.written = w2], NoneV)

\* the KeyError branch and the print() that ends the loop body
on_invalid(e, raw_response) ==
    LET w1 == PrintTo(e.written, e.cp.file, CallHandler(e, raw_response))
        w2 == PrintTo(w1, e.cp.file, <<>>)
    IN loop_head([e EXCEPT !.written = w2])

\* Mutant: a valid response is returned as the user typed it.
on_line_returns_raw(e, raw_response) ==
    LET e1 == after_input(e, Some(raw_response))
        normalized_response == normalize_choice_str(raw_response)
    IN IF normalized_response = <<>> THEN on_blank(e1)
       ELSE IF normalized_response \in DOMAIN e1.cp.choices_table
       THEN choices_prompt_return(e1, Some(raw_response))
       ELSE on_invalid(e1, raw_response)

\* Mutant: a response that is a prefix of exactly one key resolves to it.
on_line_prefix(e, raw_response) ==
    LET e1 == after_input(e, Some(raw_response))
        normalized_response == normalize_choice_str(raw_response)
        n == Len(normalized_response)
        matches == {k \in DOMAIN e1.cp.choices_table :
                      n <= Len(k) /\ SubSeq(k, 1, n) = normalized_response}
    IN IF normalized_response = <<>> THEN on_blank(e1)
       ELSE IF normalized_response \in DOMAIN e1.cp.choices_table
       THEN choices_prompt_return(
               e1, Some(Lookup(e1.cp.choices_table, normalized_response)))
       ELSE IF Cardinality(matches) = 1
       THEN choices_prompt_return(
               e1, Some(Lookup(e1.cp.choices_table,
                               CHOOSE k \in matches : TRUE)))
       ELSE on_invalid(e1, raw_response)

\* input() returned raw_response: the rest of the loop body, and the next
\* iteration up to its input()
on_line(e, raw_response) ==
    LET e1 == after_input(e, Some(raw_response))
        normalized_response == normalize_choice_str(raw_response)
    IN IF normalized_response = <<>> THEN on_blank(e1)
       ELSE IF normalized_response \in DOMAIN e1.cp.choices_table
       THEN choices_prompt_return(
               e1, Some(Lookup(e1.cp.choices_table, normalized_response)))
       ELSE on_invalid(e1, raw_response)

\* Mutant: end of input is taken for an empty line.
on_eof_as_blank(e) == on_blank(after_input(e, NoneV))

\* input() raised EOFError
on_eof(e) ==
    LET e1 == after_input(e, NoneV)
    IN choices_prompt_return(
          [e1 EXCEPT !.written = PrintTo(@, e1.cp.file, <<>>)], NoneV)

\* what `reads` records for an input() that raised KeyboardInterrupt
Interrupted == <<"raised", "KeyboardInterrupt">>

\* input() raised an exception other than EOFError: after the `finally` it
\* propagates out of choices_prompt, and out of numbered_choices_prompt
on_interrupt(e) ==
    Raise(after_input(e, Interrupted), "KeyboardInterrupt")

(***************************************************************************)
(* numbered_choices_prompt                                                 *)
(***************************************************************************)
identity(x) == x

\* Mutant: a single choice is prompted for like any other number.
OnlyOneChoice_never(max_choice) == FALSE

\* `max_choice == 1`
OnlyOneChoice(max_choice) == max_choice = 1

\* some formatter supplied by the caller
custom_item_formatter(x) == <<"<">> \o x \o <<">">>

FormatItem(item_formatter, x) ==
    IF item_formatter = NoneV THEN identity(x) ELSE custom_item_formatter(x)

\* "\n".join(lines)
RECURSIVE Join(_)
Join(lines) ==
    IF lines = <<>> THEN <<>>
    ELSE IF Len(lines) = 1 THEN lines[1]
    ELSE lines[1] \o <<NL>> \o Join(Tail(lines))

Instructions(choices, preamble, item_formatter) ==
    Join((IF preamble # <<>> THEN <<preamble>> ELSE <<>>)
         \o [i \in 1..Len(choices) |->
               FormatItem(item_formatter,
                          <<"  ">> \o StrNat(i) \o <<": ">> \o choices[i])])

default_hint(default_index) ==
    IF default_index = NoneV THEN <<>>
    ELSE <<"[">> \o StrNat(Val(default_index) + 1) \o <<"] ">>

default_prompt(max_choice, default_index) ==
    IF max_choice = 2 THEN <<"[1, 2]: ">> \o default_hint(default_index)
    ELSE <<"[1..">> \o StrNat(max_choice) \o <<"]: ">>
         \o default_hint(default_index)

\* Mutant: a prompt given by the caller replaces the synthesized one.
NumberedPrompt_caller_only(prompt, max_choice, default_index) ==
    IF Truthy(prompt) THEN Val(prompt) \o default_hint(default_index)
    ELSE default_prompt(max_choice, default_index)

\* f"{prompt} {default_prompt}" if prompt else default_prompt
NumberedPrompt(prompt, max_choice, default_index) ==
    IF Truthy(prompt)
    THEN Val(prompt) \o <<" ">> \o default_prompt(max_choice, default_index)
    ELSE default_prompt(max_choice, default_index)

\* Mutant: the choices are numbered from 0.
allowed_inputs_zero_based(max_choice) ==
    [i \in 1..max_choice |-> Aliases(<<StrNat(i - 1)>>)]
    \o <<Aliases(<<<<"?">>, <<"h">>, <<"h", "e", "l", "p">>>>),
         Aliases(<<<<"q">>, <<"q", "u", "i", "t">>>>)>>

allowed_inputs(max_choice) ==
    [i \in 1..max_choice |-> Aliases(<<StrNat(i)>>)]
    \o <<Aliases(<<<<"?">>, <<"h">>, <<"h", "e", "l", "p">>>>),
         Aliases(<<<<"q">>, <<"q", "u", "i", "t">>>>)>>

\* one iteration of the loop: the call of choices_prompt
numbered_loop(e) ==
    choices_prompt_enter(
        e, e.np.prompt, e.np.allowed_inputs,
        IF e.np.default_index = NoneV THEN NoneV
        ELSE Some(StrNat(Val(e.np.default_index) + 1)),
        Some("numbered"), Some(e.np.file))

\* Mutant: default_index is not checked.
DefaultIndexValid_unchecked(default_index, max_choice) == TRUE

\* `(default_index is None) or (0 <= default_index < max_choice)`
DefaultIndexValid(default_index, max_choice) ==
    \/ default_index = NoneV
    \/ (0 <= Val(default_index) /\ Val(default_index) < max_choice)

\* The call, from its first statement to the first input().
numbered_enter(e, choices, default_index, preamble, prompt, item_formatter, file) ==
    IF NotChoices(choices) THEN Return(e, NoneV)
    ELSE IF OnlyOneChoice(Len(choices)) THEN Return(e, Some(0))
    ELSE IF ~DefaultIndexValid(default_index, Len(choices))
    THEN Raise(e, "AssertionError@228")
    ELSE
      LET max_choice == Len(choices)
          f == IF file = NoneV THEN e.sys_stdout ELSE Val(file)
          instructions == Instructions(choices, preamble, item_formatter)
      IN numbered_loop(
            [e EXCEPT !.written = PrintTo(@, f, instructions),
                      !.np = [max_choice |-> max_choice,
                              instructions |-> instructions,
                              prompt |-> NumberedPrompt(prompt, max_choice,
                                                        default_index),
                              allowed_inputs |-> allowed_inputs(max_choice),
                              default_index |-> default_index,
                              file |-> f]])

\* Mutant: only end of input quits; "q" is handled like a number.
IsQuit_eof_only(response) == response = NoneV

\* `response is None or response == "q"`
IsQuit(response) == response = NoneV \/ Val(response) = <<"q">>

\* Mutant: help shows the prompt again without the instructions.
on_help_no_reprint(e) == numbered_loop(e)

\* the help branch: a blank line, the instructions, and the loop continues
on_help(e) ==
    numbered_loop(
        [e EXCEPT !.written =
            PrintTo(PrintTo(@, e.np.file, <<>>), e.np.file,
                    e.np.instructions)])

\* choices_prompt returned `response`: the rest of the loop body
numbered_after(e, response) ==
    IF IsQuit(response) THEN Return(e, NoneV)
    ELSE IF Val(response) = <<"?">> THEN on_help(e)
    ELSE
      LET choice == ParseInt(Val(response))
      IN IF choice = NoneV THEN Raise(e, "ValueError@276")
         ELSE IF ~(1 <= Val(choice) /\ Val(choice) <= e.np.max_choice)
         THEN Raise(e, "AssertionError@277")
         ELSE Return(e, Some(Val(choice) - 1))

(***************************************************************************)
(* The calls and inputs explored.                                          *)
(***************************************************************************)
Streams == {"stdout", "stderr"}

ChoiceUniverse ==
    {Bare(<<" ", "F", "o", "o", " ">>),
     Aliases(<<<<"f">>, <<"F", "o", "o">>>>),
     Aliases(<<<<"ß">>, <<" ">>>>),
     Aliases(<<>>)}

ChoiceCollections == UNION {[1..n -> ChoiceUniverse] : n \in 0..MaxChoices}

ChoicesPromptArgs ==
    [prompt : {<<"T", "?", " ">>},
     choices : ChoiceCollections,
     default : {NoneV, Some(<<"F", "O", "O">>), Some(<<" ">>),
                Some(<<"q", "u", "x">>)},
     invalid_handler : {NoneV, Some("custom")},
     file : {NoneV, Some("stderr")}]

ChoicesPromptResponses ==
    {<<" ", "F", "O", "O", " ">>, <<"F">>, <<"S", "S">>, <<>>, <<" ", "\t">>,
     <<"Q", "u", "x">>}

\* the i-th choice shown by numbered_choices_prompt
Label(i) == <<"c">> \o StrNat(i)

\* how many of the optional arguments preamble, prompt, item_formatter and
\* file a call sets
OptionsSet(a) ==
    Cardinality({o \in {"preamble", "prompt", "item_formatter", "file"} :
                    a[o] # <<>>})

\* The optional arguments are explored pairwise: none of them set, or three
\* of the four, which pairs every value of one with every value of another.
NumberedArgs ==
    {a \in UNION {[choices : {[i \in 1..n |-> Label(i)]},
                   default_index : {NoneV} \cup {Some(d) : d \in (-1)..n},
                   preamble : {<<>>, <<"P", "r", "e">>},
                   prompt : {NoneV, Some(<<>>), Some(<<"G", "o">>)},
                   item_formatter : {NoneV, Some("custom")},
                   file : {NoneV, Some("stderr")}] : n \in 0..MaxNumbered} :
        OptionsSet(a) \in {0, 3}}
    \cup [choices : {[i \in 1..ManyChoices |-> Label(i)]},
          default_index : {NoneV, Some(ManyChoices - 1)},
          preamble : {<<>>},
          prompt : {NoneV},
          item_formatter : {NoneV},
          file : {NoneV, Some("stderr")}]

\* the answers tried at a numbered prompt: the ends of the valid range and
\* their neighbours, the help and quit aliases, other text, blank lines
\* (empty, or of whitespace only)
NumberedResponses ==
    {<<"0">>, <<"1">>, <<" ", "2", " ">>, StrNat(np.max_choice),
     StrNat(np.max_choice + 1), <<"q">>, <<" ", "Q", "u", "i", "t">>, <<"?">>,
     <<"H", "e", "l", "p">>, <<"x">>, <<>>, <<"\t", " ">>}

Responses ==
    IF fn = "choices_prompt" THEN ChoicesPromptResponses ELSE NumberedResponses

(***************************************************************************)
(* The state machine.                                                      *)
(***************************************************************************)
Init ==
    /\ fn \in {"choices_prompt", "numbered_choices_prompt"}
    /\ args \in IF fn = "choices_prompt" THEN ChoicesPromptArgs ELSE NumberedArgs
    /\ pc = "idle"
    /\ result = NoneV
    /\ exc = ""
    /\ written = [stdout |-> <<>>, stderr |-> <<>>]
    /\ sys_stdout = "stdout"
    /\ events = <<>>
    /\ reads = <<>>
    /\ cp = NoCp
    /\ np = NoNp
    /\ platform = Posix
    /\ internal_helper = NoneV
    /\ lookups = <<>>
    /\ pg = NoPg

\* the caller calls choices_prompt(prompt, choices, default=..., ...)
CallChoicesPrompt ==
    /\ pc = "idle"
    /\ fn = "choices_prompt"
    /\ Install(choices_prompt_enter(Current, args.prompt, args.choices,
                                    args.default, args.invalid_handler,
                                    args.file))

\* the caller calls numbered_choices_prompt(choices, default_index=..., ...)
CallNumberedChoicesPrompt ==
    /\ pc = "idle"
    /\ fn = "numbered_choices_prompt"
    /\ Install(numbered_enter(Current, args.choices, args.default_index,
                              args.preamble, args.prompt, args.item_formatter,
                              args.file))

\* the user enters a line: input() returns it
InputLine(raw_response) ==
    /\ pc = "input"
    /\ Len(reads) < MaxReads
    /\ Install(on_line(Current, raw_response))

\* the input ends: input() raises EOFError
InputEOF ==
    /\ pc = "input"
    /\ Len(reads) < MaxReads
    /\ Install(on_eof(Current))

\* the user interrupts the read: input() raises KeyboardInterrupt
InputInterrupted ==
    /\ pc = "input"
    /\ Len(reads) < MaxReads
    /\ Install(on_interrupt(Current))

Next ==
    \/ CallChoicesPrompt
    \/ CallNumberedChoicesPrompt
    \/ \E raw_response \in Responses : InputLine(raw_response)
    \/ InputEOF
    \/ InputInterrupted

Spec == Init /\ [][Next]_vars

(***************************************************************************)
(* The prompts on an input stream that ends.  The stream holds fewer than  *)
(* MaxReads lines, so the end of the input can always be delivered to a    *)
(* pending read.  A read that stays pending is eventually given the end of *)
(* the stream (weak fairness of InputEOF): input() blocks until a line or  *)
(* the end of the input arrives.                                           *)
(***************************************************************************)
StreamArgs ==
    {a \in ChoicesPromptArgs : a.invalid_handler = NoneV /\ a.file = NoneV}
    \cup {a \in NumberedArgs : OptionsSet(a) = 0}

InitStream ==
    /\ fn \in {"choices_prompt", "numbered_choices_prompt"}
    /\ args \in {a \in StreamArgs :
                    ("default" \in DOMAIN a) <=> (fn = "choices_prompt")}
    /\ pc = "idle"
    /\ result = NoneV
    /\ exc = ""
    /\ written = [stdout |-> <<>>, stderr |-> <<>>]
    /\ sys_stdout = "stdout"
    /\ events = <<>>
    /\ reads = <<>>
    /\ cp = NoCp
    /\ np = NoNp
    /\ platform = Posix
    /\ internal_helper = NoneV
    /\ lookups = <<>>
    /\ pg = NoPg

\* a line of the stream is read: it is not the last thing the stream holds
StreamLine(raw_response) ==
    /\ Len(reads) + 1 < MaxReads
    /\ InputLine(raw_response)

NextStream ==
    \/ CallChoicesPrompt
    \/ CallNumberedChoicesPrompt
    \/ \E raw_response \in Responses : StreamLine(raw_response)
    \/ InputEOF
    \/ InputInterrupted

SpecStream ==
    /\ InitStream
    /\ [][NextStream]_vars
    /\ WF_vars(InputEOF)

(***************************************************************************)
(* ellipsize (tty_utils.py)                                                *)
(***************************************************************************)
ellipsis == <<".", ".", ".">>

\* s[:n] for n >= 0
Slice(s, n) == SubSeq(s, 1, IF n < Len(s) THEN n ELSE Len(s))

\* Mutant: the ellipsis is appended to `width` characters of s.
Truncated_full_width(s, width) == Slice(s, width) \o ellipsis

\* s[:(width - len(ellipsis))] + ellipsis
Truncated(s, width) == Slice(s, width - Len(ellipsis)) \o ellipsis

ellipsize(e, s, width) ==
    IF ~(width > 0) THEN Raise(e, "AssertionError@52")
    ELSE IF Len(s) <= width THEN Return(e, Some(s))
    ELSE IF width < Len(ellipsis) THEN Return(e, Some(Slice(s, width)))
    ELSE LET s1 == Truncated(s, width)
         IN IF Len(s1) # width THEN Raise(e, "AssertionError@61")
            ELSE Return(e, Some(s1))

(***************************************************************************)
(* The pure functions, applied to strings drawn from small alphabets, and  *)
(* the construction of the choice table.                                   *)
(***************************************************************************)
Strings(alphabet) == UNION {[1..n -> alphabet] : n \in 0..MaxLen}

EllipsizeArgs == [s : Strings({"a", "b", "."}), width : (-1)..MaxWidth]

NormalizeArgs == [s : Strings({" ", "F", "ß", "x"})]

InitText ==
    /\ fn \in {"ellipsize", "normalize_choice_str", "choices_prompt"}
    /\ args \in CASE fn = "ellipsize" -> EllipsizeArgs
                 [] fn = "normalize_choice_str" -> NormalizeArgs
                 [] fn = "choices_prompt" -> ChoicesPromptArgs
    /\ pc = "idle"
    /\ result = NoneV
    /\ exc = ""
    /\ written = [stdout |-> <<>>, stderr |-> <<>>]
    /\ sys_stdout = "stdout"
    /\ events = <<>>
    /\ reads = <<>>
    /\ cp = NoCp
    /\ np = NoNp
    /\ platform = Posix
    /\ internal_helper = NoneV
    /\ lookups = <<>>
    /\ pg = NoPg

\* the caller calls ellipsize(s, width)
CallEllipsize ==
    /\ pc = "idle"
    /\ fn = "ellipsize"
    /\ Install(ellipsize(Current, args.s, args.width))

\* normalize_choice_str(s) is applied
CallNormalize ==
    /\ pc = "idle"
    /\ fn = "normalize_choice_str"
    /\ Install(Return(Current, Some(normalize_choice_str(args.s))))

NextText ==
    \/ CallEllipsize
    \/ CallNormalize
    \/ CallChoicesPrompt

SpecText == InitText /\ [][NextText]_vars

(***************************************************************************)
(* paged_output (tty_utils.py).  The arguments of the specification are    *)
(* the environment: whether sys.stdout is a TTY, and whether PAGER, less   *)
(* or more gives a pager when the caller names none.                       *)
(***************************************************************************)
PagerEnvironments == [isatty : BOOLEAN, default_pager : BOOLEAN]

\* the `pager` argument: None, a program that exists, one that does not
PagerArgs == {NoneV, Some("less"), Some("missing")}

\* pager or os.environ.get("PAGER") or shutil.which("less") or ...
ResolvePager(pager) ==
    IF pager # NoneV THEN pager
    ELSE IF args.default_pager THEN Some("less")
    ELSE NoneV

\* a context that yields `stream`: <<>> for sys.stdout, <<p>> for the stdin
\* of the pager process p
Context(spawned, stream) == [spawned |-> spawned, stream |-> stream]

Push(g, c) == [g EXCEPT !.contexts = Append(@, c)]

\* Mutant: the pager of an enclosing context is not looked for.
PagerActive_never(g) == FALSE

\* `__current_paged_output_proc is not None`
PagerActive(g) == g.current_paged_output_proc # NoneV

InitPager ==
    /\ fn = "paged_output"
    /\ args \in PagerEnvironments
    /\ pc = "idle"
    /\ result = NoneV
    /\ exc = ""
    /\ written = [stdout |-> <<>>, stderr |-> <<>>]
    /\ sys_stdout = "stdout"
    /\ events = <<>>
    /\ reads = <<>>
    /\ cp = NoCp
    /\ np = NoNp
    /\ platform = Posix
    /\ internal_helper = NoneV
    /\ lookups = <<>>
    /\ pg = NoPg

\* `with paged_output(pager) as out:` is entered: the generator runs to its
\* yield, or Popen raises
EnterPagedOutput(pager) ==
    /\ fn = "paged_output"
    /\ Len(pg.contexts) < MaxContexts
    /\ IF ~args.isatty
       THEN pg' = Push(pg, Context(FALSE, NoneV)) /\ exc' = ""
       ELSE IF PagerActive(pg)
       THEN /\ pg' = Push(pg, Context(FALSE, pg.current_paged_output_proc))
            /\ exc' = ""
       ELSE IF ResolvePager(pager) = NoneV
       THEN pg' = Push(pg, Context(FALSE, NoneV)) /\ exc' = ""
       ELSE IF ResolvePager(pager) = Some("missing")
       THEN pg' = pg /\ exc' = "FileNotFoundError"
       ELSE LET proc == Len(pg.procs) + 1
            IN /\ Len(pg.procs) < MaxPagers
               /\ pg' = Push([pg EXCEPT !.procs = Append(@, "running"),
                                        !.current_paged_output_proc =
                                            Some(proc)],
                             Context(TRUE, Some(proc)))
               /\ exc' = ""
    /\ UNCHANGED <<fn, args, pc, result, written, sys_stdout, events, reads,
                   cp, np, platform, internal_helper, lookups>>

\* the body of the innermost `with` ends, normally or by raising: the
\* generator resumes after its yield
ExitPagedOutput(raising) ==
    /\ fn = "paged_output"
    /\ pg.contexts # <<>>
    /\ LET n == Len(pg.contexts)
           c == pg.contexts[n]
           rest == SubSeq(pg.contexts, 1, n - 1)
       IN IF c.spawned
          THEN pg' = [pg EXCEPT !.contexts = rest,
                                !.current_paged_output_proc = NoneV,
                                !.procs[Val(c.stream)] = "exited"]
          ELSE pg' = [pg EXCEPT !.contexts = rest]
    /\ exc' = IF raising THEN "BodyError" ELSE ""
    /\ UNCHANGED <<fn, args, pc, result, written, sys_stdout, events, reads,
                   cp, np, platform, internal_helper, lookups>>

\* the user quits the pager: its process ends while its context is open
PagerQuits(proc) ==
    /\ fn = "paged_output"
    /\ pg.procs[proc] = "running"
    /\ pg' = [pg EXCEPT !.procs[proc] = "exited"]
    /\ UNCHANGED <<fn, args, pc, result, exc, written, sys_stdout, events,
                   reads, cp, np, platform, internal_helper, lookups>>

NextPager ==
    \/ \E pager \in PagerArgs : EnterPagedOutput(pager)
    \/ \E raising \in BOOLEAN : ExitPagedOutput(raising)
    \/ \E proc \in DOMAIN pg.procs : PagerQuits(proc)

SpecPager == InitPager /\ [][NextPager]_vars

(***************************************************************************)
(* flush_input on every platform, called directly and by choices_prompt.   *)
(***************************************************************************)
\* the flushing does not depend on these arguments of choices_prompt
FlushPromptArgs ==
    {a \in ChoicesPromptArgs :
        a.default = NoneV /\ a.invalid_handler = NoneV /\ a.file = NoneV}

InitFlush ==
    /\ fn \in {"flush_input", "choices_prompt"}
    /\ args \in IF fn = "flush_input" THEN {<<>>} ELSE FlushPromptArgs
    /\ pc = "idle"
    /\ result = NoneV
    /\ exc = ""
    /\ written = [stdout |-> <<>>, stderr |-> <<>>]
    /\ sys_stdout = "stdout"
    /\ events = <<>>
    /\ reads = <<>>
    /\ cp = NoCp
    /\ np = NoNp
    /\ platform \in Platforms
    /\ internal_helper = NoneV
    /\ lookups = <<>>
    /\ pg = NoPg

\* the caller calls flush_input(), once more
CallFlushInput ==
    /\ fn = "flush_input"
    /\ pc \in {"idle", "returned"}
    /\ Len(events) < MaxFlushes
    /\ Install(Return(flush_input(Current), NoneV))

NextFlush ==
    \/ CallFlushInput
    \/ CallChoicesPrompt
    \/ \E raw_response \in Responses : InputLine(raw_response)
    \/ InputEOF

SpecFlush == InitFlush /\ [][NextFlush]_vars

(***************************************************************************)
(* Vocabulary of the properties below.  It is stated on the arguments of   *)
(* the call and on what was read and written, not on the locals.           *)
(***************************************************************************)
Last(s) == s[Len(s)]

Front(s) == SubSeq(s, 1, Len(s) - 1)

\* strip, then case-fold
Norm(s) == Casefold(Strip(s))

IsBlank(s) == Norm(s) = <<>>

\* the alias sequence of the i-th choice
AliasesOf(choices, i) ==
    IF choices[i].isStr THEN <<choices[i].s>> ELSE choices[i].t

\* the choices having an alias whose normalized form is key
Owners(choices, key) ==
    {i \in DOMAIN choices :
        \E j \in DOMAIN AliasesOf(choices, i) :
            Norm(AliasesOf(choices, i)[j]) = key}

Max(S) == CHOOSE x \in S : \A y \in S : y <= x

\* the first alias of the last choice having an alias that normalizes to key
LastOwnerFirstAlias(choices, key) ==
    AliasesOf(choices, Max(Owners(choices, key)))[1]

\* the stream the call writes to, and the other one
Sink == IF args.file = NoneV THEN "stdout" ELSE Val(args.file)

OtherStream == IF Sink = "stdout" THEN "stderr" ELSE "stdout"

NoIO ==
    /\ written = [stdout |-> <<>>, stderr |-> <<>>]
    /\ events = <<>>
    /\ reads = <<>>

EndsWith(s, t) ==
    Len(t) <= Len(s) /\ SubSeq(s, Len(s) - Len(t) + 1, Len(s)) = t

RECURSIVE Repeat(_, _)
Repeat(s, n) == IF n = 0 THEN <<>> ELSE s \o Repeat(s, n - 1)

\* the choices the active choices_prompt call was given
ActiveChoices ==
    IF fn = "choices_prompt" THEN args.choices ELSE np.allowed_inputs

\* an element of `reads` that is a line
IsLine(got) == Len(got) = 1

\* this step is input() returning the line r
ReadsLine(r) == pc = "input" /\ reads' = Append(reads, Some(r))

\* this step is input() raising EOFError
ReadsEOF == pc = "input" /\ reads' = Append(reads, NoneV)

(***************************************************************************)
(* C1.  As stated: whenever the normalized response equals the normalized  *)
(* form of an alias, choices_prompt returns the first alias of the choice  *)
(* owning that alias.                                                      *)
(***************************************************************************)
C1_AsStated ==
    (fn = "choices_prompt" /\ reads # <<>> /\ IsLine(Last(reads))) =>
        \A i \in Owners(args.choices, Norm(Val(Last(reads)))) :
            /\ pc = "returned"
            /\ result = Some(AliasesOf(args.choices, i)[1])

\* C1, amended: whenever the normalized response is not empty and equals
\* the normalized form of an alias, choices_prompt returns the first alias
\* of the last choice (in input order) having an alias with that normalized
\* form, in its original spelling.
C1_LastOwner ==
    (/\ fn = "choices_prompt"
     /\ reads # <<>>
     /\ IsLine(Last(reads))
     /\ ~IsBlank(Val(Last(reads)))
     /\ Owners(args.choices, Norm(Val(Last(reads)))) # {}) =>
        /\ pc = "returned"
        /\ exc = ""
        /\ result = Some(LastOwnerFirstAlias(args.choices,
                                             Norm(Val(Last(reads)))))

\* " FOO " is answered where " Foo " and ("f", "Foo") are the choices: "f"
C1_Witness ==
    /\ fn = "choices_prompt"
    /\ pc = "returned"
    /\ Len(reads) = 2
    /\ Last(reads) = Some(<<" ", "F", "O", "O", " ">>)
    /\ Cardinality(Owners(args.choices, <<"f", "o", "o">>)) = 2
    /\ result = Some(<<"f">>)

(***************************************************************************)
(* C2.  Two responses that differ only in letter case or in surrounding    *)
(* whitespace have the same outcome (the choice resolved, a silent retry,  *)
(* or an invalid-choice report) at the same prompt: every response has the *)
(* outcome of its normalized form.                                         *)
(***************************************************************************)
RawResponses ==
    ChoicesPromptResponses
    \cup {<<"f", "o", "o">>, <<"f", "\t">>, <<"ß">>, <<"s", "s", " ">>,
          <<"q", "U", "X", " ">>}

Outcome(e) ==
    IF e.pc = "returned" THEN <<"resolved", e.result>>
    ELSE IF e.written = Write(written, cp.file, cp.prompt)
    THEN <<"retry", NoneV>>
    ELSE <<"invalid", NoneV>>

C2_SameOutcome ==
    (fn = "choices_prompt" /\ pc = "input") =>
        \A r \in RawResponses :
            Outcome(on_line(Current, r)) = Outcome(on_line(Current, Norm(r)))

\* a prompt at which "foo" and " FOO " both resolve and "" and " \t" do not
C2_Witness ==
    /\ fn = "choices_prompt"
    /\ pc = "input"
    /\ Outcome(on_line(Current, <<" ", "F", "O", "O", " ">>))[1] = "resolved"
    /\ Outcome(on_line(Current, <<"f", "o", "o">>))[1] = "resolved"
    /\ Outcome(on_line(Current, <<" ", "\t">>))[1] = "retry"
    /\ Outcome(on_line(Current, <<"q", "U", "X", " ">>))[1] = "invalid"

(***************************************************************************)
(* C3.  With a default, a blank line resolves the prompt on that read: the *)
(* call returns the canonical choice of normalize(default), writes         *)
(* nothing, and prompts and reads no more.                                 *)
(***************************************************************************)
C3_Step ==
    \A r \in ChoicesPromptResponses :
        (/\ ReadsLine(r)
         /\ fn = "choices_prompt"
         /\ args.default # NoneV
         /\ IsBlank(r)) =>
            /\ pc' = "returned"
            /\ exc' = ""
            /\ result' = Some(LastOwnerFirstAlias(args.choices,
                                                  Norm(Val(args.default))))
            /\ written' = written
            /\ events' = Append(events, "read")

C3_DefaultOnBlank == [][C3_Step]_vars

\* default "FOO" (another case, not a first alias), a blank line after an
\* invalid one: "f" is returned
C3_Witness ==
    /\ fn = "choices_prompt"
    /\ pc = "returned"
    /\ args.default = Some(<<"F", "O", "O">>)
    /\ Len(reads) = 2
    /\ Last(reads) = Some(<<" ", "\t">>)
    /\ result = Some(<<"f">>)

(***************************************************************************)
(* C4.  Without a default, a blank line is retried silently: only the next *)
(* prompt label is written and input is read again; after k blank lines    *)
(* and a valid response the label has been written k+1 times and the       *)
(* choice is returned.                                                     *)
(***************************************************************************)
C4_Step ==
    \A r \in Responses :
        (ReadsLine(r) /\ cp.default = NoneV /\ IsBlank(r)) =>
            /\ pc' = "input"
            /\ exc' = ""
            /\ written' = Write(written, cp.file, cp.prompt)
            /\ events' = events \o <<"read", "flush">>

AllBlank(rs) == \A i \in DOMAIN rs : IsLine(rs[i]) /\ IsBlank(Val(rs[i]))

C4_Final ==
    (/\ fn = "choices_prompt"
     /\ args.default = NoneV
     /\ reads # <<>>
     /\ AllBlank(Front(reads))
     /\ IsLine(Last(reads))
     /\ ~IsBlank(Val(Last(reads)))
     /\ Owners(args.choices, Norm(Val(Last(reads)))) # {}) =>
        /\ pc = "returned"
        /\ result = Some(LastOwnerFirstAlias(args.choices,
                                             Norm(Val(Last(reads)))))
        /\ written[Sink] = Repeat(args.prompt, Len(reads))
        /\ written[OtherStream] = <<>>

C4_SilentRetry == [][C4_Step]_vars /\ []C4_Final

\* two blank lines, then a valid response
C4_Witness ==
    /\ fn = "choices_prompt"
    /\ args.default = NoneV
    /\ pc = "returned"
    /\ Len(reads) = 3
    /\ AllBlank(Front(reads))
    /\ result # NoneV
    /\ written[Sink] = args.prompt \o args.prompt \o args.prompt

(***************************************************************************)
(* C5.  At end of input the prompt writes exactly one newline to its       *)
(* output stream, after the prompt label, and the call returns None: it    *)
(* does not raise and does not return the default.                         *)
(***************************************************************************)
C5_Step ==
    ReadsEOF =>
        /\ pc' = "returned"
        /\ result' = NoneV
        /\ exc' = ""
        /\ written' = Write(written, cp.file, <<NL>>)
        /\ events' = Append(events, "read")

\* while input() blocks, the prompt label is the last thing written
C5_LabelLast == pc = "input" => EndsWith(written[cp.file], cp.prompt)

C5_EndOfInput == [][C5_Step]_vars /\ []C5_LabelLast

\* end of input after a retry, with a default set
C5_Witness ==
    /\ fn = "choices_prompt"
    /\ args.default # NoneV
    /\ pc = "returned"
    /\ Len(reads) = 2
    /\ Last(reads) = NoneV
    /\ result = NoneV
    /\ EndsWith(written[Sink], args.prompt \o <<NL>>)

(***************************************************************************)
(* C6.  A response that is not blank and matches no alias is reported:     *)
(* invalid_handler(raw response) is written, then a blank line, then the   *)
(* prompt is shown and input is read again.  The call neither returns nor  *)
(* raises.                                                                 *)
(***************************************************************************)
\* what the handler in force returns for the raw response r
InvalidMessage(r) ==
    IF fn = "numbered_choices_prompt"
    THEN <<"\"">> \o r \o <<"\" is not a valid choice.", NL,
           "The entered choice must be between 1 and ">>
         \o StrNat(Len(args.choices)) \o <<", inclusive.", NL,
           "Enter \"help\" to show the choices again or \"quit\" to quit.">>
    ELSE IF args.invalid_handler = NoneV
    THEN <<"\"">> \o r \o <<"\" is not a valid choice.">>
    ELSE custom_invalid_handler(r)

C6_Step ==
    \A r \in Responses :
        (/\ ReadsLine(r)
         /\ ~IsBlank(r)
         /\ Owners(ActiveChoices, Norm(r)) = {}) =>
            /\ pc' = "input"
            /\ exc' = ""
            /\ result' = NoneV
            /\ written' = Write(written, Sink,
                                InvalidMessage(r) \o <<NL, NL>> \o cp.prompt)
            /\ events' = events \o <<"read", "flush">>

C6_InvalidResponse == [][C6_Step]_vars

\* "F" is answered where no choice has the alias "f"
C6_Witness ==
    /\ fn = "choices_prompt"
    /\ args.invalid_handler = NoneV
    /\ pc = "input"
    /\ reads = <<Some(<<"F">>)>>
    /\ written[Sink] =
          args.prompt \o <<"\"", "F", "\" is not a valid choice.", NL, NL>>
          \o args.prompt

(***************************************************************************)
(* C7.  With an empty choices collection both functions return None at     *)
(* once: nothing is flushed, read or written.                              *)
(***************************************************************************)
C7_NoChoices ==
    (args.choices = <<>> /\ pc # "idle") =>
        /\ pc = "returned"
        /\ result = NoneV
        /\ exc = ""
        /\ NoIO

\* choices_prompt((), default="Qux") has returned
C7_Witness ==
    /\ fn = "choices_prompt"
    /\ args.choices = <<>>
    /\ args.default # NoneV
    /\ pc = "returned"
    /\ result = NoneV
    /\ NoIO

(***************************************************************************)
(* C8.  As stated: whenever the normalized default is no alias's           *)
(* normalized form, choices_prompt fails an assertion before any input or  *)
(* output.                                                                 *)
(***************************************************************************)
C8_AsStated ==
    (/\ fn = "choices_prompt"
     /\ pc # "idle"
     /\ args.default # NoneV
     /\ Owners(args.choices, Norm(Val(args.default))) = {}) =>
        /\ pc = "raised"
        /\ exc = "AssertionError@146"
        /\ NoIO

\* C8, amended: whenever choices_prompt is called with a non-empty choices
\* collection and a default whose normalized form is no alias's normalized
\* form, the call fails an assertion before any input or output.
C8_InvalidDefault ==
    (/\ fn = "choices_prompt"
     /\ pc # "idle"
     /\ args.choices # <<>>
     /\ args.default # NoneV
     /\ Owners(args.choices, Norm(Val(args.default))) = {}) =>
        /\ pc = "raised"
        /\ exc = "AssertionError@146"
        /\ result = NoneV
        /\ NoIO

\* default "FOO" where the choices are ("ß", " ") and (): raised
C8_Witness ==
    /\ fn = "choices_prompt"
    /\ Len(args.choices) = 2
    /\ args.default = Some(<<"F", "O", "O">>)
    /\ pc = "raised"
    /\ exc = "AssertionError@146"
    /\ NoIO

(***************************************************************************)
(* C9.  numbered_choices_prompt over exactly one choice returns 0 at once, *)
(* whatever its other arguments: nothing is flushed, read or written.      *)
(***************************************************************************)
C9_OneChoice ==
    (/\ fn = "numbered_choices_prompt"
     /\ Len(args.choices) = 1
     /\ pc # "idle") =>
        /\ pc = "returned"
        /\ result = Some(0)
        /\ exc = ""
        /\ NoIO

\* one choice, a default_index out of range, a preamble and a prompt
C9_Witness ==
    /\ fn = "numbered_choices_prompt"
    /\ Len(args.choices) = 1
    /\ args.default_index = Some(-1)
    /\ args.preamble # <<>>
    /\ args.prompt # NoneV
    /\ pc = "returned"
    /\ result = Some(0)
    /\ NoIO

(***************************************************************************)
(* C10.  With N >= 2 choices, a response that normalizes to the decimal    *)
(* string of k, 1 <= k <= N, makes numbered_choices_prompt return k-1;     *)
(* every integer returned is in 0..N-1; int() and the assertion            *)
(* 1 <= choice <= max_choice never fail.                                   *)
(***************************************************************************)
\* the decimal string of n, most significant digit first
RECURSIVE Decimal(_)
Decimal(n) ==
    (IF n >= 10 THEN Decimal(n \div 10) ELSE <<>>)
    \o <<CASE n % 10 = 0 -> "0" [] n % 10 = 1 -> "1" [] n % 10 = 2 -> "2"
           [] n % 10 = 3 -> "3" [] n % 10 = 4 -> "4" [] n % 10 = 5 -> "5"
           [] n % 10 = 6 -> "6" [] n % 10 = 7 -> "7" [] n % 10 = 8 -> "8"
           [] n % 10 = 9 -> "9">>

C10_Index ==
    (fn = "numbered_choices_prompt" /\ Len(args.choices) >= 2) =>
        /\ exc \notin {"ValueError@276", "AssertionError@277"}
        /\ (pc = "returned" /\ result # NoneV) =>
              (0 <= Val(result) /\ Val(result) < Len(args.choices))
        /\ (reads # <<>> /\ IsLine(Last(reads))) =>
              \A k \in 1..Len(args.choices) :
                  Norm(Val(Last(reads))) = Decimal(k) =>
                      (pc = "returned" /\ result = Some(k - 1))

\* eleven choices: "0" and "12" are rejected, then "11" returns 10
C10_Witness ==
    /\ fn = "numbered_choices_prompt"
    /\ Len(args.choices) = ManyChoices
    /\ Len(reads) = 3
    /\ reads[1] = Some(<<"0">>)
    /\ reads[2] = Some(Decimal(ManyChoices + 1))
    /\ reads[3] = Some(Decimal(ManyChoices))
    /\ pc = "returned"
    /\ result = Some(ManyChoices - 1)

(***************************************************************************)
(* C11.  At a numbered prompt a response that normalizes to "q" or "quit"  *)
(* ends the call with result None on that read and writes nothing after    *)
(* the prompt label: no error message and no instructions.  End of input   *)
(* also ends the call with result None.                                    *)
(***************************************************************************)
C11_Step ==
    /\ \A r \in Responses :
          (/\ ReadsLine(r)
           /\ fn = "numbered_choices_prompt"
           /\ Norm(r) \in {<<"q">>, <<"q", "u", "i", "t">>}) =>
              /\ pc' = "returned"
              /\ result' = NoneV
              /\ exc' = ""
              /\ written' = written
    /\ (ReadsEOF /\ fn = "numbered_choices_prompt") =>
          /\ pc' = "returned"
          /\ result' = NoneV
          /\ exc' = ""

C11_Quit == [][C11_Step]_vars

\* " Quit" is answered after a help request: None, the label written last
C11_Witness ==
    /\ fn = "numbered_choices_prompt"
    /\ pc = "returned"
    /\ result = NoneV
    /\ exc = ""
    /\ reads = <<Some(<<"?">>), Some(<<" ", "Q", "u", "i", "t">>)>>
    /\ EndsWith(written[Sink], np.prompt)

(***************************************************************************)
(* C12.  With N >= 2 choices numbered_choices_prompt prints the            *)
(* instructions (the preamble line if any, then "  <i>: <label>" for each  *)
(* choice, numbered from 1 and passed through item_formatter) once before  *)
(* the first prompt and once more for each response that resolves to the   *)
(* help alias.  A help response prints a blank line, the instructions and  *)
(* the prompt label, and no invalid-choice message; no other response      *)
(* prints the instructions.                                                *)
(***************************************************************************)
\* the instructions, from the arguments of the call
InstructionLines ==
    (IF args.preamble # <<>> THEN <<args.preamble>> ELSE <<>>)
    \o [i \in 1..Len(args.choices) |->
          LET line == <<"  ">> \o Decimal(i) \o <<": ">> \o args.choices[i]
          IN IF args.item_formatter = NoneV THEN line
             ELSE custom_item_formatter(line)]

RECURSIVE Unlines(_)
Unlines(lines) ==
    IF lines = <<>> THEN <<>> ELSE Head(lines) \o <<NL>> \o Unlines(Tail(lines))

IsHelp(r) == Norm(r) \in {<<"?">>, <<"h">>, <<"h", "e", "l", "p">>}

HelpReads ==
    Cardinality({i \in DOMAIN reads :
                    IsLine(reads[i]) /\ IsHelp(Val(reads[i]))})

\* the number of item lines in w: each starts with the indentation token
ItemLines(w) == Cardinality({i \in DOMAIN w : w[i] = "  "})

Prompting ==
    /\ fn = "numbered_choices_prompt"
    /\ Len(args.choices) >= 2
    /\ pc \in {"input", "returned"}

C12_HelpStep ==
    \A r \in Responses :
        (ReadsLine(r) /\ fn = "numbered_choices_prompt" /\ IsHelp(r)) =>
            /\ pc' = "input"
            /\ exc' = ""
            /\ result' = NoneV
            /\ written' = Write(written, Sink,
                                <<NL>> \o Unlines(InstructionLines)
                                \o np.prompt)

\* the output starts with the instructions, followed by the first label
C12_First ==
    Prompting =>
        LET first == Unlines(InstructionLines) \o np.prompt
        IN /\ Len(written[Sink]) >= Len(first)
           /\ SubSeq(written[Sink], 1, Len(first)) = first

C12_Count ==
    Prompting =>
        ItemLines(written[Sink]) = Len(args.choices) * (1 + HelpReads)

C12_Instructions == [][C12_HelpStep]_vars /\ []C12_First /\ []C12_Count

\* an invalid response, then "Help", with a preamble and a formatter: the
\* instructions were printed twice
C12_Witness ==
    /\ Prompting
    /\ pc = "input"
    /\ args.preamble # <<>>
    /\ args.item_formatter # NoneV
    /\ reads = <<Some(<<"x">>), Some(<<"H", "e", "l", "p">>)>>
    /\ ItemLines(written[Sink]) = 2 * Len(args.choices)

(***************************************************************************)
(* C13.  With N >= 2 choices and a default_index d, 0 <= d < N, a blank    *)
(* response makes numbered_choices_prompt return d on that read; with      *)
(* default_index None a blank response only shows the prompt again.  A     *)
(* default_index outside 0..N-1 fails an assertion before anything is      *)
(* printed or read.                                                        *)
(***************************************************************************)
C13_Step ==
    \A r \in Responses :
        (/\ ReadsLine(r)
         /\ fn = "numbered_choices_prompt"
         /\ IsBlank(r)) =>
            IF args.default_index # NoneV
            THEN /\ pc' = "returned"
                 /\ exc' = ""
                 /\ result' = Some(Val(args.default_index))
                 /\ written' = written
            ELSE /\ pc' = "input"
                 /\ exc' = ""
                 /\ result' = NoneV
                 /\ written' = Write(written, Sink, np.prompt)

C13_OutOfRange ==
    (/\ fn = "numbered_choices_prompt"
     /\ Len(args.choices) >= 2
     /\ args.default_index # NoneV
     /\ Val(args.default_index) \notin 0..(Len(args.choices) - 1)
     /\ pc # "idle") =>
        /\ pc = "raised"
        /\ exc = "AssertionError@228"
        /\ NoIO

\* a default_index in range fails no assertion
C13_InRange ==
    (/\ fn = "numbered_choices_prompt"
     /\ args.default_index # NoneV
     /\ Val(args.default_index) \in 0..(Len(args.choices) - 1)) =>
        exc \in {"", "KeyboardInterrupt"}

C13_DefaultIndex ==
    [][C13_Step]_vars /\ []C13_OutOfRange /\ []C13_InRange

\* default_index N-1 of N = 3, a blank line after a help request: 2
C13_Witness ==
    /\ fn = "numbered_choices_prompt"
    /\ Len(args.choices) = 3
    /\ args.default_index = Some(2)
    /\ reads = <<Some(<<"?">>), Some(<<>>)>>
    /\ pc = "returned"
    /\ result = Some(2)

(***************************************************************************)
(* C14.  Everything a prompt writes goes to the stream selected by `file`  *)
(* (standard output when it is not given): with file = stderr nothing is   *)
(* ever written to standard output, and with the default nothing is ever   *)
(* written to standard error.                                              *)
(***************************************************************************)
C14_SingleSink ==
    /\ args.file = Some("stderr") => written.stdout = <<>>
    /\ args.file = NoneV => written.stderr = <<>>

\* file = stderr: the instructions, an invalid-choice message, the help and
\* the end-of-input newline were written, all of them to standard error
C14_Witness ==
    /\ fn = "numbered_choices_prompt"
    /\ args.file = Some("stderr")
    /\ reads = <<Some(<<"x">>), Some(<<"?">>), NoneV>>
    /\ pc = "returned"
    /\ EndsWith(written.stderr, np.prompt \o <<NL>>)
    /\ written.stdout = <<>>

(***************************************************************************)
(* C15.  For width > 0, ellipsize(s, width) returns s when                 *)
(* len(s) <= width; otherwise it returns a string of length width: the     *)
(* first width-3 characters of s followed by "..." when width >= 3, the    *)
(* first width characters of s when width < 3.  A width <= 0 fails an      *)
(* assertion.                                                              *)
(***************************************************************************)
C15_Ellipsize ==
    (fn = "ellipsize" /\ pc # "idle") =>
        IF args.width <= 0
        THEN pc = "raised" /\ exc = "AssertionError@52"
        ELSE /\ pc = "returned"
             /\ exc = ""
             /\ IF Len(args.s) <= args.width
                THEN result = Some(args.s)
                ELSE /\ Len(Val(result)) = args.width
                     /\ IF args.width >= 3
                        THEN Val(result) =
                                SubSeq(args.s, 1, args.width - 3)
                                \o <<".", ".", ".">>
                        ELSE Val(result) = SubSeq(args.s, 1, args.width)

\* ellipsize("ab.ab", 4) == "a..."
C15_Witness ==
    /\ fn = "ellipsize"
    /\ args = [s |-> <<"a", "b", ".", "a", "b">>, width |-> 4]
    /\ pc = "returned"
    /\ result = Some(<<"a", ".", ".", ".">>)

(***************************************************************************)
(* C16.  normalize(normalize(s)) = normalize(s) for every string s, and    *)
(* every key of the choice table is a fixed point of normalize.            *)
(***************************************************************************)
C16_Idempotent ==
    /\ (fn = "normalize_choice_str" /\ pc = "returned") =>
          normalize_choice_str(Val(result)) = Val(result)
    /\ (fn = "choices_prompt" /\ pc = "input") =>
          \A key \in DOMAIN cp.choices_table :
              normalize_choice_str(key) = key

\* normalize(" Fß x") == "fss x": stripped, lowered and expanded
C16_Witness ==
    /\ fn = "normalize_choice_str"
    /\ args.s = <<" ", "F", "ß", " ", "x">>
    /\ pc = "returned"
    /\ result = Some(<<"f", "s", "s", " ", "x">>)

(***************************************************************************)
(* C17.  As stated: a response that is not blank and whose normalized form *)
(* is a prefix of the normalized aliases of exactly one choice resolves to *)
(* that choice; when it is a prefix for several choices, a choice it       *)
(* equals exactly is returned, and otherwise the response does not         *)
(* resolve.                                                                *)
(***************************************************************************)
IsPrefix(p, s) == Len(p) <= Len(s) /\ SubSeq(s, 1, Len(p)) = p

\* the choices having an alias whose normalized form starts with key
PrefixOwners(choices, key) ==
    {i \in DOMAIN choices :
        \E j \in DOMAIN AliasesOf(choices, i) :
            IsPrefix(key, Norm(AliasesOf(choices, i)[j]))}

\* choices_prompt has just read a response that is not blank
Answered ==
    /\ fn = "choices_prompt"
    /\ reads # <<>>
    /\ IsLine(Last(reads))
    /\ ~IsBlank(Val(Last(reads)))

Resolved(owners) ==
    /\ pc = "returned"
    /\ \E i \in owners : result = Some(AliasesOf(args.choices, i)[1])

C17_AsStated ==
    Answered =>
        LET key == Norm(Val(Last(reads)))
            matches == PrefixOwners(args.choices, key)
            exact == Owners(args.choices, key)
        IN /\ Cardinality(matches) = 1 => Resolved(matches)
           /\ (Cardinality(matches) > 1 /\ exact # {}) => Resolved(exact)
           /\ (Cardinality(matches) > 1 /\ exact = {}) => pc # "returned"

\* C17, amended: a response that is not blank resolves exactly when its
\* normalized form equals the normalized form of an alias, and then to a
\* choice having such an alias, whatever other choices it is a prefix of;
\* a response that is only a proper prefix of aliases is reported as an
\* invalid choice and the prompt is shown again.
C17_ExactOnly ==
    Answered =>
        LET key == Norm(Val(Last(reads)))
            exact == Owners(args.choices, key)
        IN /\ exact # {} => Resolved(exact)
           /\ exact = {} =>
                 /\ pc = "input"
                 /\ result = NoneV
                 /\ exc = ""
                 /\ EndsWith(written[Sink],
                             InvalidMessage(Val(Last(reads))) \o <<NL, NL>>
                             \o args.prompt)

\* the only choice is " Foo ": "F", a prefix of it, is reported as invalid,
\* then " FOO " resolves
C17_Witness ==
    /\ fn = "choices_prompt"
    /\ args.choices = <<Bare(<<" ", "F", "o", "o", " ">>)>>
    /\ args.invalid_handler = NoneV
    /\ reads = <<Some(<<"F">>), Some(<<" ", "F", "O", "O", " ">>)>>
    /\ pc = "returned"
    /\ result = Some(<<" ", "F", "o", "o", " ">>)
    /\ written[Sink] =
          args.prompt \o <<"\"", "F", "\" is not a valid choice.", NL, NL>>
          \o args.prompt

(***************************************************************************)
(* C18.  As stated: when two aliases, of the same choice or of different   *)
(* choices, normalize to the same key, a response matching that key        *)
(* returns the first alias of the later choice.                            *)
(***************************************************************************)
\* the positions (choice, alias) whose alias normalizes to key
AliasPositions(choices, key) ==
    {p \in UNION {{<<i, j>> : j \in DOMAIN AliasesOf(choices, i)} :
                     i \in DOMAIN choices} :
        Norm(AliasesOf(choices, p[1])[p[2]]) = key}

Collides(choices, key) == Cardinality(AliasPositions(choices, key)) >= 2

\* the normalized forms of all the aliases
Keys(choices) ==
    UNION {{Norm(AliasesOf(choices, i)[j]) : j \in DOMAIN AliasesOf(choices, i)} :
              i \in DOMAIN choices}

C18_AsStated ==
    (/\ fn = "choices_prompt"
     /\ reads # <<>>
     /\ IsLine(Last(reads))
     /\ Collides(args.choices, Norm(Val(Last(reads))))) =>
        /\ pc = "returned"
        /\ result = Some(LastOwnerFirstAlias(args.choices,
                                             Norm(Val(Last(reads)))))

\* C18, amended: when two aliases, of the same choice or of different
\* choices, normalize to the same key that is not empty, a response matching
\* that key returns the first alias of the later choice, the earlier choice
\* being shadowed; for every colliding key, empty or not, the table holds
\* the first alias of the later choice, and no error is raised when the
\* table is built.
C18_LaterWins ==
    /\ (Answered /\ Collides(args.choices, Norm(Val(Last(reads))))) =>
          /\ pc = "returned"
          /\ exc = ""
          /\ result = Some(LastOwnerFirstAlias(args.choices,
                                               Norm(Val(Last(reads)))))
    /\ (fn = "choices_prompt" /\ pc = "input") =>
          \A key \in Keys(args.choices) :
              Collides(args.choices, key) =>
                  cp.choices_table[key] = LastOwnerFirstAlias(args.choices, key)
    /\ (/\ fn = "choices_prompt"
        /\ \E key \in Keys(args.choices) : Collides(args.choices, key)
        /\ \/ args.default = NoneV
           \/ Norm(Val(args.default)) \in Keys(args.choices)) =>
          /\ exc \in {"", "KeyboardInterrupt"}
          /\ pc # "idle" => events # <<>>

\* ("f", "Foo") comes first and " Foo " second: " FOO " returns " Foo "
C18_Witness ==
    /\ fn = "choices_prompt"
    /\ args.choices = <<Aliases(<<<<"f">>, <<"F", "o", "o">>>>),
                        Bare(<<" ", "F", "o", "o", " ">>)>>
    /\ reads = <<Some(<<" ", "F", "O", "O", " ">>)>>
    /\ pc = "returned"
    /\ result = Some(<<" ", "F", "o", "o", " ">>)

(***************************************************************************)
(* C19.  Each read of input is preceded by its own call of flush_input:    *)
(* the events alternate flush, read, flush, read, ...; there are as many   *)
(* flushes as reads, the read the call is blocked in counted; and between  *)
(* a flush and its read only the prompt label of that read is written.     *)
(***************************************************************************)
Alternates(ev) ==
    \A i \in DOMAIN ev : ev[i] = IF i % 2 = 1 THEN "flush" ELSE "read"

Flushes == Cardinality({i \in DOMAIN events : events[i] = "flush"})

C19_FlushBeforeRead ==
    /\ Alternates(events)
    /\ Flushes = Len(reads) + (IF pc = "input" THEN 1 ELSE 0)
    /\ pc = "input" => written = Write(cp.flushed, cp.file, cp.prompt)

\* an invalid response and a blank one: three flushes, the third made after
\* the invalid-choice message and its blank line were written
C19_Witness ==
    /\ fn = "choices_prompt"
    /\ pc = "input"
    /\ reads = <<Some(<<"Q", "u", "x">>), Some(<<>>)>>
    /\ events = <<"flush", "read", "flush", "read", "flush">>
    /\ EndsWith(cp.flushed[Sink], <<NL, NL>> \o args.prompt)
    /\ written[Sink] = cp.flushed[Sink] \o args.prompt

(***************************************************************************)
(* C20.  As stated: the label of a numbered prompt is the prompt given by  *)
(* the caller or, when none is given, a synthesized one ("[1, 2]: " for    *)
(* two choices, "[1..N]: " otherwise), followed by "[d+1] " when a default *)
(* index d is set.                                                         *)
(***************************************************************************)
SynthesizedLabel ==
    IF Len(args.choices) = 2 THEN <<"[1, 2]: ">>
    ELSE <<"[1..">> \o Decimal(Len(args.choices)) \o <<"]: ">>

DefaultSuffix ==
    IF args.default_index = NoneV THEN <<>>
    ELSE <<"[">> \o Decimal(Val(args.default_index) + 1) \o <<"] ">>

\* the call is blocked in input(): the label shown is the last thing written
LabelShown(label) ==
    /\ cp.prompt = label
    /\ EndsWith(written[Sink], label)

C20_AsStated ==
    (Prompting /\ pc = "input") =>
        LabelShown((IF args.prompt # NoneV THEN Val(args.prompt)
                    ELSE SynthesizedLabel) \o DefaultSuffix)

\* C20, amended: the label of a numbered prompt is the synthesized one
\* ("[1, 2]: " for two choices, "[1..N]: " otherwise), preceded by the
\* caller's prompt and a space when the caller gives a prompt that is not
\* empty, and followed by "[d+1] " when a default index d is set; every
\* read of the call shows this same label.
C20_Label ==
    (Prompting /\ pc = "input") =>
        LabelShown((IF args.prompt # NoneV /\ Val(args.prompt) # <<>>
                    THEN Val(args.prompt) \o <<" ">> ELSE <<>>)
                   \o SynthesizedLabel \o DefaultSuffix)

\* prompt "Go", three choices, default_index 1: the third read is labelled
\* "Go [1..3]: [2] "
C20_Witness ==
    /\ Prompting
    /\ pc = "input"
    /\ Len(reads) = 2
    /\ args.prompt = Some(<<"G", "o">>)
    /\ args.default_index = Some(1)
    /\ Len(args.choices) = 3
    /\ EndsWith(written[Sink],
                <<"G", "o", " ", "[1..", "3", "]: ", "[", "2", "] ">>)

(***************************************************************************)
(* C21.  As stated: after the first call of flush_input every later call   *)
(* invokes the cached implementation and looks up no module; on a platform *)
(* with neither termios nor msvcrt every call does nothing and raises      *)
(* nothing.                                                                *)
(***************************************************************************)
\* this step calls flush_input
FlushStep == events' # events /\ Last(events') = "flush"

\* what flush_input looks up and calls in this step
NewLookups == SubSeq(lookups', Len(lookups) + 1, Len(lookups'))

Imports == {"import termios", "import msvcrt"}

NoHelper == ~platform.termios /\ ~platform.msvcrt

C21_AsStatedStep ==
    FlushStep =>
        /\ events # <<>> =>
              /\ Len(NewLookups) = 1
              /\ NewLookups[1] \notin Imports
        /\ NoHelper =>
              /\ \A i \in DOMAIN NewLookups : NewLookups[i] \in Imports
              /\ exc' = ""

C21_AsStated == [][C21_AsStatedStep]_vars

\* C21, amended: on a platform with termios or msvcrt the implementation is
\* chosen by the first call of flush_input and stored; every later call
\* invokes the stored implementation and looks up no module.  On a platform
\* with neither, nothing is stored: every call looks up both modules again,
\* does nothing else and raises nothing.
C21_Step ==
    FlushStep =>
        IF NoHelper
        THEN /\ NewLookups = <<"import termios", "import msvcrt">>
             /\ internal_helper' = NoneV
             /\ exc' = ""
        ELSE LET impl == IF platform.termios THEN "termios" ELSE "msvcrt"
                 call == IF platform.termios THEN <<"termios.tcflush">>
                         ELSE <<"msvcrt.kbhit">>
             IN /\ internal_helper' = Some(impl)
                /\ exc' = ""
                /\ IF events = <<>>
                   THEN /\ internal_helper = NoneV
                        /\ NewLookups =
                              (IF platform.termios THEN <<"import termios">>
                               ELSE <<"import termios", "import msvcrt">>)
                              \o call
                   ELSE /\ internal_helper = Some(impl)
                        /\ NewLookups = call

C21_Memoized == [][C21_Step]_vars

\* three calls where only msvcrt can be imported: the modules are looked up
\* by the first call only
C21_Witness ==
    /\ fn = "flush_input"
    /\ platform = [termios |-> FALSE, msvcrt |-> TRUE]
    /\ pc = "returned"
    /\ internal_helper = Some("msvcrt")
    /\ lookups = <<"import termios", "import msvcrt", "msvcrt.kbhit",
                   "msvcrt.kbhit", "msvcrt.kbhit">>

(***************************************************************************)
(* C22.  As stated: with sys.stdout a TTY at most one pager process        *)
(* started by paged_output is running; every context entered inside        *)
(* another yields the stdin of the outer context's pager and is not itself *)
(* a pager's context; and the flag __current_paged_output_proc is not None *)
(* exactly while the outermost context is open.                            *)
(***************************************************************************)
PagerFlag == pg.current_paged_output_proc

RunningPagers == {p \in DOMAIN pg.procs : pg.procs[p] = "running"}

\* the open contexts that started a pager
Spawners == {i \in DOMAIN pg.contexts : pg.contexts[i].spawned}

C22_AsStated ==
    (fn = "paged_output" /\ args.isatty) =>
        /\ Cardinality(RunningPagers) <= 1
        /\ PagerFlag # NoneV <=> pg.contexts # <<>>
        /\ \A i \in DOMAIN pg.contexts :
              i > 1 => /\ ~pg.contexts[i].spawned
                       /\ pg.contexts[i].stream = pg.contexts[1].stream
                       /\ pg.contexts[i].stream # NoneV

\* C22, amended: with sys.stdout a TTY at most one pager process started by
\* paged_output is running and at most one open context has started a
\* pager; a context entered while that one is open yields the stdin of its
\* pager and, when it exits, leaves the flag as it is; the flag is not None
\* exactly while the context that started the pager is open, and is None
\* again when that context exits, also when its body raises.  (The
\* outermost context starts no pager when none is found: the flag then
\* stays None while it is open.)
C22_Inv ==
    (fn = "paged_output" /\ args.isatty) =>
        /\ Cardinality(RunningPagers) <= 1
        /\ Cardinality(Spawners) <= 1
        /\ PagerFlag # NoneV <=> Spawners # {}
        /\ RunningPagers \subseteq {p \in DOMAIN pg.procs : PagerFlag = Some(p)}
        /\ \A i \in Spawners :
              /\ pg.contexts[i].stream = PagerFlag
              /\ \A j \in DOMAIN pg.contexts :
                    j > i => pg.contexts[j] = Context(FALSE, PagerFlag)

\* this step is the exit of the innermost context
ExitStep ==
    /\ fn = "paged_output"
    /\ pg.contexts # <<>>
    /\ pg'.contexts = SubSeq(pg.contexts, 1, Len(pg.contexts) - 1)

C22_ExitStep ==
    (ExitStep /\ args.isatty) =>
        IF Last(pg.contexts).spawned
        THEN /\ PagerFlag # NoneV
             /\ pg'.current_paged_output_proc = NoneV
             /\ pg'.procs[Val(PagerFlag)] = "exited"
        ELSE pg'.current_paged_output_proc = PagerFlag

C22_NoNestedPager == [][C22_ExitStep]_vars /\ []C22_Inv

\* the body of a context nested in the pager's context has raised: the
\* pager's context is still open and the flag still names its process
C22_Witness ==
    /\ fn = "paged_output"
    /\ args.isatty
    /\ exc = "BodyError"
    /\ pg.contexts = <<Context(TRUE, Some(1))>>
    /\ pg.procs = <<"running">>
    /\ PagerFlag = Some(1)

(***************************************************************************)
(* C23.  sys.stdout is bound to `file` only while input() reads, and is    *)
(* bound again to the stream it was bound to before, whether input()       *)
(* returns a line, raises EOFError or raises another exception: once the   *)
(* call has returned or raised, sys.stdout is what it was before the call. *)
(***************************************************************************)
C23_Inv ==
    fn \in {"choices_prompt", "numbered_choices_prompt"} =>
        IF pc = "input"
        THEN sys_stdout = Sink /\ cp.old_stdout = "stdout"
        ELSE sys_stdout = "stdout"

\* every read ends with sys.stdout as the previous binding saved for it
C23_Step ==
    (pc = "input" /\ reads' # reads /\ pc' # "input") =>
        sys_stdout' = cp.old_stdout

C23_StdoutRestored == [][C23_Step]_vars /\ []C23_Inv

\* file = stderr: a line was read, then the user interrupted the second read
C23_Witness ==
    /\ fn = "choices_prompt"
    /\ args.file = Some("stderr")
    /\ Len(reads) = 2
    /\ IsLine(reads[1])
    /\ Last(reads) = Interrupted
    /\ pc = "raised"
    /\ exc = "KeyboardInterrupt"
    /\ sys_stdout = "stdout"

(***************************************************************************)
(* C24.  Whatever the choices, the default and the input, the value        *)
(* choices_prompt returns is None or the first alias of one of the choices *)
(* given, a single string being its own first alias: never another alias,  *)
(* a normalized key or the text the user typed, unless that is also a      *)
(* first alias.                                                            *)
(***************************************************************************)
FirstAliases(choices) ==
    {AliasesOf(choices, i)[1] :
        i \in {j \in DOMAIN choices : AliasesOf(choices, j) # <<>>}}

C24_ReturnValue ==
    (fn = "choices_prompt" /\ pc = "returned") =>
        \/ result = NoneV
        \/ Val(result) \in FirstAliases(args.choices)

\* " FOO " is answered where ("f", "Foo") is a choice: "f" is returned, not
\* the alias "Foo", the key "foo" or the response " FOO "
C24_Witness ==
    /\ fn = "choices_prompt"
    /\ args.choices = <<Aliases(<<<<"f">>, <<"F", "o", "o">>>>)>>
    /\ args.default = Some(<<"F", "O", "O">>)
    /\ reads = <<Some(<<"S", "S">>), Some(<<" ", "F", "O", "O", " ">>)>>
    /\ pc = "returned"
    /\ result = Some(<<"f">>)

(***************************************************************************)
(* C25.  A read ends the prompt loop exactly when it is the end of the     *)
(* input, a valid choice, or a blank line while a default is set; any      *)
(* other line, at whatever position in the stream, leaves the prompt       *)
(* waiting for the next read (there is no limit on retries), and after the *)
(* call ended nothing more is read.  choices_prompt returns at the first   *)
(* such read.  On a stream that ends, a choices_prompt or                  *)
(* numbered_choices_prompt that waits for input terminates.                *)
(***************************************************************************)
\* the read `got` ends the loop of the running prompt; in
\* numbered_choices_prompt a request for help is one more retry
Ends(got) ==
    \/ got = NoneV
    \/ /\ IsLine(got)
       /\ LET key == normalize_choice_str(Val(got))
          IN IF key = <<>> THEN cp.default # NoneV
             ELSE /\ key \in DOMAIN cp.choices_table
                  /\ fn = "numbered_choices_prompt" =>
                        Lookup(cp.choices_table, key) # <<"?">>

Terminated == pc \in {"returned", "raised"}

C25_Step ==
    /\ (pc = "input" /\ reads' # reads) =>
          LET got == Last(reads')
          IN /\ reads' = Append(reads, got)
             /\ Ends(got) <=> pc' = "returned"
             /\ (IsLine(got) /\ ~Ends(got)) => pc' = "input"
    /\ Terminated => (reads' = reads /\ pc' = pc)

C25_First ==
    (fn = "choices_prompt" /\ pc = "returned" /\ reads # <<>>) =>
        /\ Ends(Last(reads))
        /\ \A i \in 1..(Len(reads) - 1) : IsLine(reads[i]) /\ ~Ends(reads[i])

C25_Terminates ==
    /\ [][C25_Step]_vars
    /\ []C25_First
    /\ (pc = "input") ~> Terminated

\* an invalid line and a blank line without a default are retried, the end
\* of the input then makes choices_prompt return None
C25_Witness ==
    /\ fn = "choices_prompt"
    /\ args.default = NoneV
    /\ args.choices # <<>>
    /\ reads = <<Some(<<"S", "S">>), Some(<<" ", "\t">>), NoneV>>
    /\ pc = "returned"
    /\ result = NoneV

====
